---- MODULE Spec2Model ----
(***************************************************************************)
(* The user domain of part-the-sea/divinity (user.go): validateUser, the   *)
(* UserStore the service talks to, and the seven UserService operations.   *)
(*                                                                         *)
(* Strings that the code only compares with "" are TLA+ strings; an email  *)
(* is a sequence of one-character strings, because validateUser matches it *)
(* against a regular expression.  A *User is a set: {} is nil, {u} points  *)
(* to the record u.  A time.Time is a natural number, 0 the zero time.  An *)
(* ID is a natural number, 0 the empty string (no ID assigned yet).        *)
(***************************************************************************)
EXTENDS Naturals, Sequences, FiniteSets

VARIABLES
    users,    \* the rows of the users table behind the UserStore
    nextId,   \* the id the store assigns to the next inserted row
    now,      \* the wall clock: the value time.Now() returned in the last call
    store,    \* which UserStore the service was constructed with
    op,       \* the service operation (or validateUser) called last
    arg,      \* the arguments of that call
    err,      \* the error message that call returned, NoErr for a nil error
    ret,      \* the *User the caller holds after the call: the record a Get
              \* returned, the argument Create filled in; {} when nil
    calls,    \* the store calls the service made during that call, in order
    hashErr,  \* the error bcrypt returned during that call, NoErr if none
    procs     \* the calls in flight when callers race: each caller's position
              \* in its Create or UpdateEmail and that call's local variables

vars == <<users, nextId, now, store, op, arg, err, ret, calls, hashErr, procs>>

---------------------------------------------------------------------------
(* Bounds of the model *)

MaxTime == 3      \* the clock stops here: at most MaxTime calls in a run
MaxId == 2        \* at most MaxId rows are ever inserted
MaxLen == 6       \* longest email given to validateUser on its own

---------------------------------------------------------------------------
(* Errors *)

NoErr == "nil"

ErrPasswordRequired == "password is required"
ErrFirstNameRequired == "first name is required"
ErrLastNameRequired == "last name is required"
ErrEmailRequired == "email is required"
ErrInvalidEmail == "invalid email format"
ErrEmailExists == "user with this email already exists"
ErrNotFound == "user not found"
ErrInternal == "an internal error occurred"

\* sql.ErrNoRows, and an arbitrary other failure of a store call or of bcrypt
ErrNoRows == "sql: no rows in result set"
ErrRandom == "random error"

\* errors.Is(e, target) for the unwrapped errors of the model
ErrorsIs(e, target) == e = target

---------------------------------------------------------------------------
(* validateUser *)

Letters == {"a"}
Digits == {"1"}
Alphabet == {"a", "1", "_", ".", "@", "!"}

\* the three character classes of emailRegex
InLocal(c) == c \in Letters \/ c \in Digits \/ c \in {".", "_", "%", "+", "-"}
InDomain(c) == c \in Letters \/ c \in Digits \/ c \in {".", "-"}
InTLD(c) == c \in Letters

\* emailRegex as the automaton regexp compiles it to: state 0 is ^, 1 is
\* inside the local part, 2 after @, 3 inside the domain, 4 after \., 5
\* after one TLD letter, 6 after two or more (the only accepting state, $).
RegexStep(q, c) ==
    CASE q = 0 -> IF InLocal(c) THEN {1} ELSE {}
      [] q = 1 -> (IF InLocal(c) THEN {1} ELSE {}) \cup (IF c = "@" THEN {2} ELSE {})
      [] q = 2 -> IF InDomain(c) THEN {3} ELSE {}
      [] q = 3 -> (IF InDomain(c) THEN {3} ELSE {}) \cup (IF c = "." THEN {4} ELSE {})
      [] q = 4 -> IF InTLD(c) THEN {5} ELSE {}
      [] q = 5 -> IF InTLD(c) THEN {6} ELSE {}
      [] q = 6 -> IF InTLD(c) THEN {6} ELSE {}

RECURSIVE RegexRun(_, _, _)
RegexRun(qs, s, i) ==
    IF i > Len(s) THEN qs
    ELSE RegexRun(UNION {RegexStep(q, s[i]) : q \in qs}, s, i + 1)

\* emailRegex.MatchString(s)
EmailRegexMatch(s) == 6 \in RegexRun({0}, s, 1)

\* validateUser checking the names before the password
validateUser_NamesFirst(user) ==
    IF user.FirstName = "" THEN ErrFirstNameRequired
    ELSE IF user.LastName = "" THEN ErrLastNameRequired
    ELSE IF user.Password = "" THEN ErrPasswordRequired
    ELSE IF user.Email = <<>> THEN ErrEmailRequired
    ELSE IF ~EmailRegexMatch(user.Email) THEN ErrInvalidEmail
    ELSE NoErr

validateUser(user) ==
    IF user.Password = "" THEN ErrPasswordRequired
    ELSE IF user.FirstName = "" THEN ErrFirstNameRequired
    ELSE IF user.LastName = "" THEN ErrLastNameRequired
    ELSE IF user.Email = <<>> THEN ErrEmailRequired
    ELSE IF ~EmailRegexMatch(user.Email) THEN ErrInvalidEmail
    ELSE NoErr

---------------------------------------------------------------------------
(* Records *)

\* type User; user.ID = 0 before the store assigned one
User(id, first, last, email, password, created, updated) ==
    [ID |-> id, FirstName |-> first, LastName |-> last, Email |-> email,
     Password |-> password, CreatedAt |-> created, UpdatedAt |-> updated]

\* *User
Nil == {}
Ptr(u) == {u}
Deref(p) == CHOOSE u \in p : TRUE

\* one store call as the service saw it: the method, the *User passed in
\* (as the store received it), the *User and the error that came back
StoreCall(fn, user, result, e) == [fn |-> fn, user |-> user, ret |-> result, err |-> e]

\* what a service call leaves behind
Outcome(e, r, cs, he, tbl, nid) ==
    [err |-> e, ret |-> r, calls |-> cs, hashErr |-> he, users |-> tbl, nextId |-> nid]

---------------------------------------------------------------------------
(* bcrypt *)

\* the salts the random source can give, and its failure to give one
Salts == {"s1", "s2"}
NoSalt == ""

\* bcrypt.GenerateFromPassword(password, bcrypt.DefaultCost): the salted
\* digest in bcrypt's "$2a$10$" format, or the error of the random source
GenerateFromPassword(password, salt) ==
    IF salt = NoSalt THEN [hash |-> "", err |-> ErrRandom]
    ELSE [hash |-> "$2a$10$" \o salt \o password, err |-> NoErr]

---------------------------------------------------------------------------
(* The store *)

\* UserPostgresStore reports a missing row as (nil, sql.ErrNoRows) from
\* row.Scan; a UserStore as the service's tests build it reports (nil, nil)
StorePostgres == "UserPostgresStore"
StoreNilNil == "MockUserStore"
StoreKinds == {StorePostgres, StoreNilNil}

\* the result of a single-row lookup that matched the rows `rows`, or that
\* failed; a service call's `fault` is the store method that fails in it,
\* "none" if none does
Lookup(kind, rows, failed) ==
    IF failed THEN [user |-> Nil, err |-> ErrRandom]
    ELSE IF rows = {} THEN
        [user |-> Nil, err |-> IF kind = StorePostgres THEN ErrNoRows ELSE NoErr]
    ELSE [user |-> Ptr(CHOOSE u \in rows : TRUE), err |-> NoErr]

StoreGetByID(tbl, kind, id, fault) ==
    Lookup(kind, {u \in tbl : u.ID = id}, fault = "GetByID")

StoreGetByEmail(tbl, kind, email, fault) ==
    Lookup(kind, {u \in tbl : u.Email = email}, fault = "GetByEmail")

\* INSERT ... RETURNING id, scanned into user.ID
StoreCreate(tbl, nid, user, fault) ==
    IF fault = "Create" THEN [users |-> tbl, nextId |-> nid, user |-> user, err |-> ErrRandom]
    ELSE LET row == [user EXCEPT !.ID = nid]
         IN [users |-> tbl \cup {row}, nextId |-> nid + 1, user |-> row, err |-> NoErr]

\* UPDATE users SET first_name, last_name, email, password, updated_at
\* WHERE id: created_at is not written
StoreUpdate(tbl, user, fault) ==
    IF fault = "Update" THEN [users |-> tbl, err |-> ErrRandom]
    ELSE [users |-> {IF u.ID = user.ID
                     THEN [user EXCEPT !.CreatedAt = u.CreatedAt]
                     ELSE u : u \in tbl},
          err |-> NoErr]

StoreDelete(tbl, id, fault) ==
    IF fault = "Delete" THEN [users |-> tbl, err |-> ErrRandom]
    ELSE [users |-> {u \in tbl : u.ID # id}, err |-> NoErr]

---------------------------------------------------------------------------
(* UserService: each operation as a function of the table, the store kind, *)
(* the time t that time.Now() returns during the call, the arguments, and  *)
(* the environment of the call: the store method that fails (fault), the   *)
(* salt bcrypt draws (NoSalt: bcrypt fails)                                 *)

\* Create without the test of the email lookup's record
SvcCreate_IgnoreExisting(tbl, nid, kind, t, user, fault, salt) ==
    LET u0 == [user EXCEPT !.CreatedAt = t, !.UpdatedAt = t]
        verr == validateUser(u0)
        hashed == GenerateFromPassword(u0.Password, salt)
        u1 == [u0 EXCEPT !.Password = hashed.hash]
        look == StoreGetByEmail(tbl, kind, u1.Email, fault)
        c1 == <<StoreCall("GetByEmail", Nil, look.user, look.err)>>
        ins == StoreCreate(tbl, nid, u1, fault)
        c2 == Append(c1, StoreCall("Create", Ptr(u1), Nil, ins.err))
    IN  IF verr # NoErr THEN Outcome(verr, Ptr(u0), <<>>, NoErr, tbl, nid)
        ELSE IF hashed.err # NoErr
            THEN Outcome(ErrInternal, Ptr(u0), <<>>, hashed.err, tbl, nid)
        ELSE IF look.err # NoErr /\ ~ErrorsIs(look.err, ErrNoRows)
            THEN Outcome(ErrInternal, Ptr(u1), c1, NoErr, tbl, nid)
        ELSE IF ins.err # NoErr
            THEN Outcome(ErrInternal, Ptr(ins.user), c2, NoErr, tbl, nid)
        ELSE Outcome(NoErr, Ptr(ins.user), c2, NoErr, ins.users, ins.nextId)

SvcCreate(tbl, nid, kind, t, user, fault, salt) ==
    LET u0 == [user EXCEPT !.CreatedAt = t, !.UpdatedAt = t]
        verr == validateUser(u0)
        hashed == GenerateFromPassword(u0.Password, salt)
        u1 == [u0 EXCEPT !.Password = hashed.hash]
        look == StoreGetByEmail(tbl, kind, u1.Email, fault)
        c1 == <<StoreCall("GetByEmail", Nil, look.user, look.err)>>
        ins == StoreCreate(tbl, nid, u1, fault)
        c2 == Append(c1, StoreCall("Create", Ptr(u1), Nil, ins.err))
    IN  IF verr # NoErr THEN Outcome(verr, Ptr(u0), <<>>, NoErr, tbl, nid)
        ELSE IF hashed.err # NoErr
            THEN Outcome(ErrInternal, Ptr(u0), <<>>, hashed.err, tbl, nid)
        ELSE IF look.err # NoErr /\ ~ErrorsIs(look.err, ErrNoRows)
            THEN Outcome(ErrInternal, Ptr(u1), c1, NoErr, tbl, nid)
        ELSE IF look.user # Nil
            THEN Outcome(ErrEmailExists, Ptr(u1), c1, NoErr, tbl, nid)
        ELSE IF ins.err # NoErr
            THEN Outcome(ErrInternal, Ptr(ins.user), c2, NoErr, tbl, nid)
        ELSE Outcome(NoErr, Ptr(ins.user), c2, NoErr, ins.users, ins.nextId)

\* SvcGet handing the store's error to the caller as it is
SvcGet_RawError(fn, look, tbl, nid) ==
    LET c1 == <<StoreCall(fn, Nil, look.user, look.err)>>
    IN  IF look.err # NoErr THEN Outcome(look.err, Nil, c1, NoErr, tbl, nid)
        ELSE IF look.user = Nil THEN Outcome(ErrNotFound, Nil, c1, NoErr, tbl, nid)
        ELSE Outcome(NoErr, look.user, c1, NoErr, tbl, nid)

\* the mapping GetByID and GetByEmail apply to the store's answer
SvcGet(fn, look, tbl, nid) ==
    LET c1 == <<StoreCall(fn, Nil, look.user, look.err)>>
    IN  IF look.err # NoErr THEN Outcome(ErrInternal, Nil, c1, NoErr, tbl, nid)
        ELSE IF look.user = Nil THEN Outcome(ErrNotFound, Nil, c1, NoErr, tbl, nid)
        ELSE Outcome(NoErr, look.user, c1, NoErr, tbl, nid)

\* GetByID blanking the password of the record it returns
SvcGetByID_BlankPassword(tbl, nid, kind, id, fault) ==
    LET out == SvcGet("GetByID", StoreGetByID(tbl, kind, id, fault), tbl, nid)
    IN  IF out.ret = Nil THEN out
        ELSE [out EXCEPT !.ret = Ptr([Deref(out.ret) EXCEPT !.Password = ""])]

SvcGetByID(tbl, nid, kind, id, fault) ==
    SvcGet("GetByID", StoreGetByID(tbl, kind, id, fault), tbl, nid)

SvcGetByEmail(tbl, nid, kind, email, fault) ==
    SvcGet("GetByEmail", StoreGetByEmail(tbl, kind, email, fault), tbl, nid)

\* Update writing a record built from the request alone
SvcUpdate_FromRequest(tbl, nid, kind, t, id, request, fault) ==
    LET look == StoreGetByID(tbl, kind, id, fault)
        c1 == <<StoreCall("GetByID", Nil, look.user, look.err)>>
        e3 == User(id, request.FirstName, request.LastName, <<>>, "", 0, t)
        upd == StoreUpdate(tbl, e3, fault)
        c2 == Append(c1, StoreCall("Update", Ptr(e3), Nil, upd.err))
    IN  IF look.err # NoErr THEN Outcome(ErrInternal, Nil, c1, NoErr, tbl, nid)
        ELSE IF look.user = Nil THEN Outcome(ErrNotFound, Nil, c1, NoErr, tbl, nid)
        ELSE IF upd.err # NoErr THEN Outcome(ErrInternal, Nil, c2, NoErr, tbl, nid)
        ELSE Outcome(upd.err, Nil, c2, NoErr, upd.users, nid)

SvcUpdate(tbl, nid, kind, t, id, request, fault) ==
    LET look == StoreGetByID(tbl, kind, id, fault)
        c1 == <<StoreCall("GetByID", Nil, look.user, look.err)>>
        e0 == Deref(look.user)
        e1 == IF request.FirstName = "" THEN [e0 EXCEPT !.FirstName = request.FirstName] ELSE e0
        e2 == IF request.LastName = "" THEN [e1 EXCEPT !.LastName = request.LastName] ELSE e1
        e3 == [e2 EXCEPT !.UpdatedAt = t]
        upd == StoreUpdate(tbl, e3, fault)
        c2 == Append(c1, StoreCall("Update", Ptr(e3), Nil, upd.err))
    IN  IF look.err # NoErr THEN Outcome(ErrInternal, Nil, c1, NoErr, tbl, nid)
        ELSE IF look.user = Nil THEN Outcome(ErrNotFound, Nil, c1, NoErr, tbl, nid)
        ELSE IF upd.err # NoErr THEN Outcome(ErrInternal, Nil, c2, NoErr, tbl, nid)
        ELSE Outcome(upd.err, Nil, c2, NoErr, upd.users, nid)

\* UpdatePassword storing the requested password itself
SvcUpdatePassword_StorePlain(tbl, nid, kind, t, id, request, fault, salt) ==
    LET look == StoreGetByID(tbl, kind, id, fault)
        c1 == <<StoreCall("GetByID", Nil, look.user, look.err)>>
        e0 == Deref(look.user)
        hashed == GenerateFromPassword(request.Password, salt)
        e1 == [e0 EXCEPT !.Password = request.Password]
        upd == StoreUpdate(tbl, e1, fault)
        c2 == Append(c1, StoreCall("Update", Ptr(e1), Nil, upd.err))
    IN  IF look.err # NoErr THEN Outcome(ErrInternal, Nil, c1, NoErr, tbl, nid)
        ELSE IF look.user = Nil THEN Outcome(ErrNotFound, Nil, c1, NoErr, tbl, nid)
        ELSE IF request.Password = ""
            THEN Outcome(ErrPasswordRequired, Nil, c1, NoErr, tbl, nid)
        ELSE IF hashed.err # NoErr
            THEN Outcome(ErrInternal, Nil, c1, hashed.err, tbl, nid)
        ELSE IF upd.err # NoErr THEN Outcome(ErrInternal, Nil, c2, NoErr, tbl, nid)
        ELSE Outcome(NoErr, Nil, c2, NoErr, upd.users, nid)

\* UpdatePassword without the test for an empty password
SvcUpdatePassword_NoEmptyCheck(tbl, nid, kind, t, id, request, fault, salt) ==
    LET look == StoreGetByID(tbl, kind, id, fault)
        c1 == <<StoreCall("GetByID", Nil, look.user, look.err)>>
        e0 == Deref(look.user)
        hashed == GenerateFromPassword(request.Password, salt)
        e1 == [e0 EXCEPT !.Password = hashed.hash]
        upd == StoreUpdate(tbl, e1, fault)
        c2 == Append(c1, StoreCall("Update", Ptr(e1), Nil, upd.err))
    IN  IF look.err # NoErr THEN Outcome(ErrInternal, Nil, c1, NoErr, tbl, nid)
        ELSE IF look.user = Nil THEN Outcome(ErrNotFound, Nil, c1, NoErr, tbl, nid)
        ELSE IF hashed.err # NoErr
            THEN Outcome(ErrInternal, Nil, c1, hashed.err, tbl, nid)
        ELSE IF upd.err # NoErr THEN Outcome(ErrInternal, Nil, c2, NoErr, tbl, nid)
        ELSE Outcome(NoErr, Nil, c2, NoErr, upd.users, nid)

SvcUpdatePassword(tbl, nid, kind, t, id, request, fault, salt) ==
    LET look == StoreGetByID(tbl, kind, id, fault)
        c1 == <<StoreCall("GetByID", Nil, look.user, look.err)>>
        e0 == Deref(look.user)
        hashed == GenerateFromPassword(request.Password, salt)
        e1 == [e0 EXCEPT !.Password = hashed.hash]
        upd == StoreUpdate(tbl, e1, fault)
        c2 == Append(c1, StoreCall("Update", Ptr(e1), Nil, upd.err))
    IN  IF look.err # NoErr THEN Outcome(ErrInternal, Nil, c1, NoErr, tbl, nid)
        ELSE IF look.user = Nil THEN Outcome(ErrNotFound, Nil, c1, NoErr, tbl, nid)
        ELSE IF request.Password = ""
            THEN Outcome(ErrPasswordRequired, Nil, c1, NoErr, tbl, nid)
        ELSE IF hashed.err # NoErr
            THEN Outcome(ErrInternal, Nil, c1, hashed.err, tbl, nid)
        ELSE IF upd.err # NoErr THEN Outcome(ErrInternal, Nil, c2, NoErr, tbl, nid)
        ELSE Outcome(NoErr, Nil, c2, NoErr, upd.users, nid)

\* UpdateEmail without the lookup of the requested email
SvcUpdateEmail_NoCheck(tbl, nid, kind, t, id, request, fault) ==
    LET look == StoreGetByID(tbl, kind, id, fault)
        c1 == <<StoreCall("GetByID", Nil, look.user, look.err)>>
        e0 == Deref(look.user)
        e1 == [e0 EXCEPT !.Email = request.Email, !.UpdatedAt = t]
        upd == StoreUpdate(tbl, e1, fault)
        c3 == Append(c1, StoreCall("Update", Ptr(e1), Nil, upd.err))
    IN  IF look.err # NoErr THEN Outcome(ErrInternal, Nil, c1, NoErr, tbl, nid)
        ELSE IF look.user = Nil THEN Outcome(ErrNotFound, Nil, c1, NoErr, tbl, nid)
        ELSE IF request.Email = <<>>
            THEN Outcome(ErrEmailRequired, Nil, c1, NoErr, tbl, nid)
        ELSE IF upd.err # NoErr THEN Outcome(ErrInternal, Nil, c3, NoErr, tbl, nid)
        ELSE Outcome(NoErr, Nil, c3, NoErr, upd.users, nid)

SvcUpdateEmail(tbl, nid, kind, t, id, request, fault) ==
    LET look == StoreGetByID(tbl, kind, id, fault)
        c1 == <<StoreCall("GetByID", Nil, look.user, look.err)>>
        e0 == Deref(look.user)
        other == StoreGetByEmail(tbl, kind, request.Email, fault)
        c2 == Append(c1, StoreCall("GetByEmail", Nil, other.user, other.err))
        e1 == [e0 EXCEPT !.Email = request.Email, !.UpdatedAt = t]
        upd == StoreUpdate(tbl, e1, fault)
        c3 == Append(c2, StoreCall("Update", Ptr(e1), Nil, upd.err))
    IN  IF look.err # NoErr THEN Outcome(ErrInternal, Nil, c1, NoErr, tbl, nid)
        ELSE IF look.user = Nil THEN Outcome(ErrNotFound, Nil, c1, NoErr, tbl, nid)
        ELSE IF request.Email = <<>>
            THEN Outcome(ErrEmailRequired, Nil, c1, NoErr, tbl, nid)
        ELSE IF other.err # NoErr /\ ~ErrorsIs(other.err, ErrNoRows)
            THEN Outcome(ErrInternal, Nil, c2, NoErr, tbl, nid)
        ELSE IF other.user # Nil
            THEN Outcome(ErrEmailExists, Nil, c2, NoErr, tbl, nid)
        ELSE IF upd.err # NoErr THEN Outcome(ErrInternal, Nil, c3, NoErr, tbl, nid)
        ELSE Outcome(NoErr, Nil, c3, NoErr, upd.users, nid)

SvcDelete(tbl, nid, kind, id, fault) ==
    LET look == StoreGetByID(tbl, kind, id, fault)
        c1 == <<StoreCall("GetByID", Nil, look.user, look.err)>>
        del == StoreDelete(tbl, id, fault)
        c2 == Append(c1, StoreCall("Delete", Nil, Nil, del.err))
    IN  IF look.err # NoErr THEN Outcome(ErrInternal, Nil, c1, NoErr, tbl, nid)
        ELSE IF look.user = Nil THEN Outcome(ErrNotFound, Nil, c1, NoErr, tbl, nid)
        ELSE IF del.err # NoErr THEN Outcome(ErrInternal, Nil, c2, NoErr, tbl, nid)
        ELSE Outcome(NoErr, Nil, c2, NoErr, del.users, nid)

---------------------------------------------------------------------------
(* The callers' inputs *)

FirstNames == {"", "John"}
LastNames == {"", "Doe"}
\* the names an UpdateUserRequest carries: a new first name, the same last name
RequestFirstNames == {"", "Jane"}
RequestLastNames == {"", "Doe"}
Passwords == {"", "password"}
Email1 == <<"a", "@", "a", ".", "a", "a">>
Email2 == <<"1", "@", "a", ".", "a", "a">>
BadEmail == <<"a", "@", "a">>
Emails == {<<>>, BadEmail, Email1, Email2}
Ids == 1..MaxId

Args(id, first, last, email, password) ==
    [id |-> id, FirstName |-> first, LastName |-> last, Email |-> email,
     Password |-> password]
NoArgs == Args(0, "", "", <<>>, "")

\* the User a caller passes to Create or to validateUser
Candidate(a) == User(0, a.FirstName, a.LastName, a.Email, a.Password, 0, 0)

\* the racing callers, and a caller that has not called yet: pc is its
\* position, op, id and email its call, user the record its call works on,
\* err what the call returned, at the step `last`, storeErr the error of its
\* last store call, seen the number of racing calls that had written when
\* it looked the email up
Procs == {1, 2}
Idle ==
    [pc |-> "idle", op |-> "none", id |-> 0, email |-> <<>>, user |-> Nil,
     err |-> NoErr, last |-> "none", storeErr |-> NoErr, seen |-> 0]

---------------------------------------------------------------------------
(* The service called one operation at a time *)

Init ==
    /\ users = {}
    /\ nextId = 1
    /\ now = 0
    /\ store \in StoreKinds
    /\ op = "none"
    /\ arg = NoArgs
    /\ err = NoErr
    /\ ret = Nil
    /\ calls = <<>>
    /\ hashErr = NoErr
    /\ procs = [p \in Procs |-> Idle]

\* a call of operation `name` with arguments a that ended as `out`
Return(name, a, t, out) ==
    /\ op' = name
    /\ arg' = a
    /\ now' = t
    /\ err' = out.err
    /\ ret' = out.ret
    /\ calls' = out.calls
    /\ hashErr' = out.hashErr
    /\ users' = out.users
    /\ nextId' = out.nextId
    /\ UNCHANGED <<store, procs>>

\* the environments that can make a difference to a call: no store method
\* fails and bcrypt has no say when the call returns before reaching them
Envs(reached, faults, salts) ==
    IF reached THEN {[fault |-> f, salt |-> x] : f \in faults, x \in salts}
    ELSE {[fault |-> "none", salt |-> "s1"]}

Create ==
    /\ now < MaxTime
    /\ \E first \in FirstNames, last \in LastNames, email \in Emails, password \in Passwords :
        \E env \in Envs(validateUser(Candidate(Args(0, first, last, email, password))) = NoErr,
                        {"none", "GetByEmail", "Create"}, Salts \cup {NoSalt}) :
          LET a == Args(0, first, last, email, password)
              out == SvcCreate(users, nextId, store, now + 1, Candidate(a), env.fault, env.salt)
          IN  /\ out.nextId <= MaxId + 1
              /\ Return("Create", a, now + 1, out)

GetByID ==
    /\ now < MaxTime
    /\ \E id \in Ids, fault \in {"none", "GetByID"} :
          LET out == SvcGetByID(users, nextId, store, id, fault)
          IN  Return("GetByID", Args(id, "", "", <<>>, ""), now + 1, out)

GetByEmail ==
    /\ now < MaxTime
    /\ \E email \in Emails, fault \in {"none", "GetByEmail"} :
          LET out == SvcGetByEmail(users, nextId, store, email, fault)
          IN  Return("GetByEmail", Args(0, "", "", email, ""), now + 1, out)

Update ==
    /\ now < MaxTime
    /\ \E id \in Ids, first \in RequestFirstNames, last \in RequestLastNames,
          fault \in {"none", "GetByID", "Update"} :
          LET a == Args(id, first, last, <<>>, "")
              out == SvcUpdate(users, nextId, store, now + 1, id, a, fault)
          IN  Return("Update", a, now + 1, out)

UpdatePassword ==
    /\ now < MaxTime
    /\ \E id \in Ids, password \in Passwords, fault \in {"none", "GetByID", "Update"} :
        \E env \in Envs(password # "" /\ fault # "GetByID", {fault}, Salts \cup {NoSalt}) :
          LET a == Args(id, "", "", <<>>, password)
              out == SvcUpdatePassword(users, nextId, store, now + 1, id, a, fault, env.salt)
          IN  Return("UpdatePassword", a, now + 1, out)

UpdateEmail ==
    /\ now < MaxTime
    /\ \E id \in Ids, email \in Emails, fault \in {"none", "GetByID", "GetByEmail", "Update"} :
          LET a == Args(id, "", "", email, "")
              out == SvcUpdateEmail(users, nextId, store, now + 1, id, a, fault)
          IN  Return("UpdateEmail", a, now + 1, out)

Delete ==
    /\ now < MaxTime
    /\ \E id \in Ids, fault \in {"none", "GetByID", "Delete"} :
          LET out == SvcDelete(users, nextId, store, id, fault)
          IN  Return("Delete", Args(id, "", "", <<>>, ""), now + 1, out)

Next ==
    \/ Create
    \/ GetByID
    \/ GetByEmail
    \/ Update
    \/ UpdatePassword
    \/ UpdateEmail
    \/ Delete

Spec == Init /\ [][Next]_vars

---------------------------------------------------------------------------
(* validateUser called on its own.  The form of the email is looked at   *)
(* only when the password and the names are present, so the emails up to *)
(* MaxLen characters come with those; every combination of empty and     *)
(* non-empty fields comes with the emails of the service's callers.      *)

EmailsUpTo(n) == UNION {[1..k -> Alphabet] : k \in 0..n}

InitValidate ==
    /\ users = {}
    /\ nextId = 1
    /\ now = 0
    /\ store = StoreNilNil
    /\ op = "none"
    /\ arg \in {Args(0, first, last, email, password) :
                    first \in FirstNames, last \in LastNames,
                    email \in Emails, password \in Passwords}
                \cup {Args(0, "John", "Doe", email, "password") :
                          email \in EmailsUpTo(MaxLen)}
    /\ err = NoErr
    /\ ret = Nil
    /\ calls = <<>>
    /\ hashErr = NoErr
    /\ procs = [p \in Procs |-> Idle]

Validate ==
    /\ op = "none"
    /\ op' = "validateUser"
    /\ err' = validateUser(Candidate(arg))
    /\ UNCHANGED <<users, nextId, now, store, arg, ret, calls, hashErr, procs>>

NextValidate == Validate

SpecValidate == InitValidate /\ [][NextValidate]_vars

---------------------------------------------------------------------------
(* Racing callers: Create and UpdateEmail one store call at a time.  The   *)
(* service holds no lock and opens no transaction, so between two store    *)
(* calls of one caller the store calls of another may run.                 *)

Email3 == <<"_", "@", "a", ".", "a", "a">>
RaceEmails == {<<>>, Email1, Email3}

\* a call that returned e at step `step`
Returned(pr, e, step, storeErr) ==
    [pr EXCEPT !.pc = "done", !.err = e, !.last = step, !.storeErr = storeErr]

\* Create up to its first store call: the timestamps, validateUser, bcrypt
CreateBegin(t, user, salt) ==
    LET u0 == [user EXCEPT !.CreatedAt = t, !.UpdatedAt = t]
        verr == validateUser(u0)
        hashed == GenerateFromPassword(u0.Password, salt)
        u1 == [u0 EXCEPT !.Password = hashed.hash]
        pr == [Idle EXCEPT !.op = "Create", !.email = user.Email, !.user = Ptr(u0)]
    IN  IF verr # NoErr THEN Returned(pr, verr, "validate", NoErr)
        ELSE IF hashed.err # NoErr THEN Returned(pr, ErrInternal, "hash", NoErr)
        ELSE [pr EXCEPT !.pc = "lookup", !.user = Ptr(u1)]

\* UpdateEmail's load of the existing record and its test of the request
UpdateEmailLoad(pr, tbl, kind, fault) ==
    LET look == StoreGetByID(tbl, kind, pr.id, fault)
    IN  IF look.err # NoErr THEN Returned(pr, ErrInternal, "load", look.err)
        ELSE IF look.user = Nil THEN Returned(pr, ErrNotFound, "load", look.err)
        ELSE IF pr.email = <<>> THEN Returned(pr, ErrEmailRequired, "load", look.err)
        ELSE [pr EXCEPT !.pc = "lookup", !.user = look.user]

\* the email lookup of Create and of UpdateEmail and the test of its result;
\* written is the number of racing calls that have written by now
EmailLookup(pr, tbl, kind, fault, written) ==
    LET look == StoreGetByEmail(tbl, kind, pr.email, fault)
    IN  IF look.err # NoErr /\ ~ErrorsIs(look.err, ErrNoRows)
            THEN Returned(pr, ErrInternal, "lookup", look.err)
        ELSE IF look.user # Nil THEN Returned(pr, ErrEmailExists, "lookup", look.err)
        ELSE [pr EXCEPT !.pc = "write", !.seen = written]

\* the write with the email looked up once more, under a lock
EmailWrite_Recheck(pr, tbl, nid, t, fault) ==
    LET ins == StoreCreate(tbl, nid, Deref(pr.user), fault)
        e1 == [Deref(pr.user) EXCEPT !.Email = pr.email, !.UpdatedAt = t]
        upd == StoreUpdate(tbl, e1, fault)
    IN  IF \E u \in tbl : u.Email = pr.email
        THEN [proc |-> Returned(pr, ErrEmailExists, "write", NoErr),
              users |-> tbl, nextId |-> nid]
        ELSE IF pr.op = "Create"
        THEN [proc |-> Returned([pr EXCEPT !.user = Ptr(ins.user)],
                                IF ins.err # NoErr THEN ErrInternal ELSE NoErr,
                                "write", ins.err),
              users |-> ins.users, nextId |-> ins.nextId]
        ELSE [proc |-> Returned([pr EXCEPT !.user = Ptr(e1)],
                                IF upd.err # NoErr THEN ErrInternal ELSE NoErr,
                                "write", upd.err),
              users |-> upd.users, nextId |-> nid]

\* the write that ends Create (store Create) and UpdateEmail (the new email
\* and updatedAt assigned, store Update)
EmailWrite(pr, tbl, nid, t, fault) ==
    LET ins == StoreCreate(tbl, nid, Deref(pr.user), fault)
        e1 == [Deref(pr.user) EXCEPT !.Email = pr.email, !.UpdatedAt = t]
        upd == StoreUpdate(tbl, e1, fault)
    IN  IF pr.op = "Create"
        THEN [proc |-> Returned([pr EXCEPT !.user = Ptr(ins.user)],
                                IF ins.err # NoErr THEN ErrInternal ELSE NoErr,
                                "write", ins.err),
              users |-> ins.users, nextId |-> ins.nextId]
        ELSE [proc |-> Returned([pr EXCEPT !.user = Ptr(e1)],
                                IF upd.err # NoErr THEN ErrInternal ELSE NoErr,
                                "write", upd.err),
              users |-> upd.users, nextId |-> nid]

\* the racing calls that have written
Written == Cardinality({q \in Procs : procs[q].pc = "done" /\ procs[q].last = "write"
                                       /\ procs[q].storeErr = NoErr})

\* before the race: users created by calls that do not overlap
RaceSetup ==
    /\ \A p \in Procs : procs[p].pc = "idle"
    /\ Create
    /\ err' = NoErr

RaceCallCreate(p) ==
    /\ procs[p].pc = "idle"
    /\ \E email \in RaceEmails, salt \in Salts \cup {NoSalt} :
          procs' = [procs EXCEPT ![p] =
                      CreateBegin(now + 1, Candidate(Args(0, "John", "Doe", email, "password")), salt)]
    /\ now' = now + 1
    /\ UNCHANGED <<users, nextId, store, op, arg, err, ret, calls, hashErr>>

RaceCallUpdateEmail(p) ==
    /\ procs[p].pc = "idle"
    /\ \E id \in Ids, email \in RaceEmails :
          procs' = [procs EXCEPT ![p] =
                      [Idle EXCEPT !.pc = "load", !.op = "UpdateEmail", !.id = id, !.email = email]]
    /\ UNCHANGED <<users, nextId, now, store, op, arg, err, ret, calls, hashErr>>

RaceLoad(p) ==
    /\ procs[p].pc = "load"
    /\ \E fault \in {"none", "GetByID"} :
          procs' = [procs EXCEPT ![p] = UpdateEmailLoad(procs[p], users, store, fault)]
    /\ UNCHANGED <<users, nextId, now, store, op, arg, err, ret, calls, hashErr>>

RaceLookup(p) ==
    /\ procs[p].pc = "lookup"
    /\ \E fault \in {"none", "GetByEmail"} :
          procs' = [procs EXCEPT ![p] = EmailLookup(procs[p], users, store, fault, Written)]
    /\ UNCHANGED <<users, nextId, now, store, op, arg, err, ret, calls, hashErr>>

RaceWrite(p) ==
    /\ procs[p].pc = "write"
    /\ \E fault \in {"none", procs[p].op} :
          LET t == IF procs[p].op = "Create" THEN now ELSE now + 1
              out == EmailWrite(procs[p], users, nextId, t,
                                IF fault = "UpdateEmail" THEN "Update" ELSE fault)
          IN  /\ out.nextId <= MaxId + 1
              /\ procs' = [procs EXCEPT ![p] = out.proc]
              /\ users' = out.users
              /\ nextId' = out.nextId
              /\ now' = t
    /\ UNCHANGED <<store, op, arg, err, ret, calls, hashErr>>

NextRace ==
    \/ RaceSetup
    \/ \E p \in Procs :
          \/ RaceCallCreate(p)
          \/ RaceCallUpdateEmail(p)
          \/ RaceLoad(p)
          \/ RaceLookup(p)
          \/ RaceWrite(p)

SpecRace == Init /\ [][NextRace]_vars

---------------------------------------------------------------------------
(* Properties *)

ServiceOps ==
    {"Create", "GetByID", "GetByEmail", "Update", "UpdatePassword", "UpdateEmail", "Delete"}

\* the closed set of caller-visible messages
CallerMessages ==
    {ErrPasswordRequired, ErrFirstNameRequired, ErrLastNameRequired, ErrEmailRequired,
     ErrInvalidEmail, ErrEmailExists, ErrNotFound, ErrInternal}

\* the store calls of the last service call that went to method fn
CallsTo(fn) == {i \in DOMAIN calls : calls[i].fn = fn}

\* the last service call loaded an existing record in its first store call
Loaded == Len(calls) >= 1 /\ calls[1].fn = "GetByID" /\ calls[1].err = NoErr /\ calls[1].ret # Nil

\* no store call of the last service call failed, absence signals aside
NoStoreFailure == \A i \in DOMAIN calls : calls[i].err \in {NoErr, ErrNoRows}

\* C1: every error a UserService operation returns carries one of the eight
\* fixed messages; when a store call failed with an unexpected error (not
\* the absence signal) or bcrypt failed, the message is exactly
\* `an internal error occurred`, and never the store's own text.
C1_ErrorsClosed ==
    op \in ServiceOps =>
        /\ err \in CallerMessages \cup {NoErr}
        /\ ((\E i \in DOMAIN calls : calls[i].err \notin {NoErr, ErrNoRows}) \/ hashErr # NoErr)
              => err = ErrInternal
        /\ \A i \in DOMAIN calls : calls[i].err # NoErr => err # calls[i].err

C1_Witness ==
    /\ op = "GetByID"
    /\ calls[1].err = ErrRandom
    /\ err = ErrInternal

\* C2: called one operation at a time, from a table with no two users of
\* the same email, the service never leaves two stored users with the same
\* email.
C2_EmailUnique ==
    \A u \in users, v \in users : u.Email = v.Email => u.ID = v.ID

C2_Witness ==
    /\ Cardinality(users) = 2
    /\ op = "UpdateEmail"
    /\ Loaded
    /\ \E v \in users : v.ID # arg.id /\ v.Email = arg.Email
    /\ err = ErrEmailExists

\* C3: UpdateEmail on an existing user with a non-empty email, no store
\* call failing, returns `user with this email already exists` when a
\* different user holds the email, and calls store Update and returns no
\* error when no user or only the user itself holds it.
C3_UpdateEmailOwnEmail ==
    (op = "UpdateEmail" /\ Loaded /\ arg.Email # <<>> /\ NoStoreFailure) =>
        LET holder == calls[2].ret
        IN  IF holder # Nil /\ Deref(holder).ID # arg.id
            THEN err = ErrEmailExists /\ CallsTo("Update") = {}
            ELSE /\ err = NoErr
                 /\ \E i \in CallsTo("Update") : Deref(calls[i].user).Email = arg.Email

\* C4: when no user matches the id or the email, GetByID and GetByEmail and
\* the load step of Update, UpdatePassword, UpdateEmail and Delete return
\* `user not found`, also when the store signals the absence as the
\* database-backed store does (nil record, no-rows error).
C4_AbsenceIsNotFound ==
    (/\ op \in ServiceOps \ {"Create"}
     /\ Len(calls) >= 1
     /\ calls[1].ret = Nil
     /\ calls[1].err \in {NoErr, ErrNoRows}) => err = ErrNotFound

\* C5: in each successful Create, Update, UpdatePassword and UpdateEmail
\* the record handed to the store carries updatedAt set to the time of that
\* call.
C5_UpdatedAtRefreshed ==
    (op \in {"Create", "Update", "UpdatePassword", "UpdateEmail"} /\ err = NoErr) =>
        \A i \in CallsTo("Create") \cup CallsTo("Update") :
            Deref(calls[i].user).UpdatedAt = now

\* C6: Create of a record that passes validation decides on the store's
\* email lookup: a returned user gives `user with this email already
\* exists` and no store Create; a failure other than the absence signal
\* gives `an internal error occurred` and no store Create; absence gives
\* exactly one store Create, with the caller's record.
C6_CreateDecidesOnLookup ==
    (op = "Create" /\ validateUser(Candidate(arg)) = NoErr /\ Len(calls) >= 1) =>
        LET look == calls[1]
        IN  /\ look.fn = "GetByEmail"
            /\ look.err \notin {NoErr, ErrNoRows}
                  => err = ErrInternal /\ CallsTo("Create") = {}
            /\ (look.err = NoErr /\ look.ret # Nil)
                  => err = ErrEmailExists /\ CallsTo("Create") = {}
            /\ (look.err \in {NoErr, ErrNoRows} /\ look.ret = Nil)
                  => /\ Cardinality(CallsTo("Create")) = 1
                     /\ \A i \in CallsTo("Create") :
                           LET r == Deref(calls[i].user)
                           IN  /\ r.FirstName = arg.FirstName
                               /\ r.LastName = arg.LastName
                               /\ r.Email = arg.Email

C6_Witness ==
    /\ op = "Create"
    /\ Len(calls) = 2
    /\ calls[1].err = ErrNoRows
    /\ calls[2].fn = "Create"
    /\ err = NoErr
    /\ Cardinality(users) = 2

\* the form local-part@domain.tld: the local part of letters, digits and
\* . _ % + -, the domain of letters, digits, . and -, the top-level segment
\* of at least two letters
SpecLocal == Letters \cup Digits \cup {".", "_", "%", "+", "-"}
SpecDomain == Letters \cup Digits \cup {".", "-"}
AllIn(s, from, to, set) == \A k \in from..to : s[k] \in set
WellFormed(s) ==
    \E at \in 2..Len(s), dot \in 4..Len(s) :
        /\ s[at] = "@"
        /\ s[dot] = "."
        /\ at + 1 < dot
        /\ dot + 2 <= Len(s)
        /\ AllIn(s, 1, at - 1, SpecLocal)
        /\ AllIn(s, at + 1, dot - 1, SpecDomain)
        /\ AllIn(s, dot + 1, Len(s), Letters)

\* C7: validateUser returns the first failing check of the fixed order
\* password, first name, last name, email present, email well-formed, and
\* success when none fails; errors are never aggregated.
C7_FirstFailingCheck ==
    op = "validateUser" =>
        err = IF arg.Password = "" THEN ErrPasswordRequired
              ELSE IF arg.FirstName = "" THEN ErrFirstNameRequired
              ELSE IF arg.LastName = "" THEN ErrLastNameRequired
              ELSE IF arg.Email = <<>> THEN ErrEmailRequired
              ELSE IF ~WellFormed(arg.Email) THEN ErrInvalidEmail
              ELSE NoErr

C7_Witness ==
    /\ op = "validateUser"
    /\ arg.Password = ""
    /\ arg.FirstName = ""
    /\ err = ErrPasswordRequired

\* a bcrypt digest of a non-empty plaintext
IsHash(x) == \E p \in Passwords \ {""}, salt \in Salts : x = GenerateFromPassword(p, salt).hash

\* C8: in every call of store Create or store Update the record's password
\* is the hash of a plaintext and not the plaintext the caller supplied to
\* Create or UpdatePassword; after a successful Create the caller's record
\* no longer holds the plaintext given.
C8_PasswordHashed ==
    /\ \A i \in CallsTo("Create") \cup CallsTo("Update") :
          /\ IsHash(Deref(calls[i].user).Password)
          /\ op \in {"Create", "UpdatePassword"} => Deref(calls[i].user).Password # arg.Password
    /\ (op = "Create" /\ err = NoErr) => Deref(ret).Password # arg.Password
    /\ \A u \in users : IsHash(u.Password)

C8_Witness ==
    /\ op = "UpdatePassword"
    /\ err = NoErr
    /\ \E i \in CallsTo("Update") :
          Deref(calls[i].user).Password # Deref(calls[1].ret).Password

\* C9: GetByID and GetByEmail map the store's lookup result: a failure to a
\* nil record and `an internal error occurred`; absence (no error, no
\* record) to a nil record and `user not found`; a record to that record,
\* unmodified, with no error.
C9_GetMapsLookup ==
    op \in {"GetByID", "GetByEmail"} =>
        LET look == calls[1]
        IN  /\ Len(calls) = 1
            /\ look.fn = op
            /\ look.err # NoErr => ret = Nil /\ err = ErrInternal
            /\ (look.err = NoErr /\ look.ret = Nil) => ret = Nil /\ err = ErrNotFound
            /\ (look.err = NoErr /\ look.ret # Nil)
                  => /\ ret = look.ret
                     /\ err = NoErr
                     /\ Deref(ret) \in users
                     /\ op = "GetByID" => Deref(ret).ID = arg.id
                     /\ op = "GetByEmail" => Deref(ret).Email = arg.Email

C9_Witness ==
    /\ op = "GetByID"
    /\ err = NoErr
    /\ ret # Nil
    /\ Deref(ret).Password # ""

\* C10: UpdatePassword with an empty password on an existing user returns
\* `password is required`, never calls store Update, and leaves the stored
\* record, its password hash included, as it was loaded.
C10_EmptyPasswordRejected ==
    (op = "UpdatePassword" /\ Loaded /\ arg.Password = "") =>
        /\ err = ErrPasswordRequired
        /\ CallsTo("Update") = {}
        /\ Deref(calls[1].ret) \in users

C10_Witness ==
    /\ op = "UpdatePassword"
    /\ Loaded
    /\ arg.Password = ""
    /\ err = ErrPasswordRequired

\* C11: Delete for an id the store reports as absent returns `user not
\* found` and does not call store Delete; store Delete is called only after
\* the load returned a record.
C11_DeleteAbsent ==
    op = "Delete" =>
        /\ (calls[1].ret = Nil /\ calls[1].err \in {NoErr, ErrNoRows})
              => err = ErrNotFound /\ CallsTo("Delete") = {}
        /\ CallsTo("Delete") # {} => Loaded

\* C12: after a successful Update with non-empty first and last name in the
\* request, the record passed to store Update carries the requested names.
C12_UpdateAppliesNames ==
    (op = "Update" /\ err = NoErr /\ arg.FirstName # "" /\ arg.LastName # "") =>
        /\ CallsTo("Update") # {}
        /\ \A i \in CallsTo("Update") :
              /\ Deref(calls[i].user).FirstName = arg.FirstName
              /\ Deref(calls[i].user).LastName = arg.LastName

\* C14: from an empty table, after any sequence of service operations every
\* stored user has a non-empty first name, last name and password and an
\* email of the form local-part@domain.tld.
C14_StoredUsersValid ==
    \A u \in users :
        /\ u.FirstName # ""
        /\ u.LastName # ""
        /\ u.Password # ""
        /\ u.Email # <<>>
        /\ WellFormed(u.Email)

\* the id and the creation time of every row of a table
IdCreated(tbl) == {<<u.ID, u.CreatedAt>> : u \in tbl}

\* C15: the record Update passes to store Update has the email and the
\* password of the record it loaded; no Update, UpdatePassword or
\* UpdateEmail changes the id or the createdAt of a stored user.
C15_UpdateFrame ==
    [][op' \in {"Update", "UpdatePassword", "UpdateEmail"} =>
          /\ IdCreated(users') = IdCreated(users)
          /\ op' = "Update" =>
                \A i \in {j \in DOMAIN calls' : calls'[j].fn = "Update"} :
                    /\ Deref(calls'[i].user).Email = Deref(calls'[1].ret).Email
                    /\ Deref(calls'[i].user).Password = Deref(calls'[1].ret).Password
                    /\ Deref(calls'[1].ret) \in users]_vars

C15_Witness ==
    /\ op = "Update"
    /\ err = NoErr
    /\ arg.FirstName = ""
    /\ \E u \in users : u.ID = arg.id /\ u.FirstName = "" /\ u.UpdatedAt > u.CreatedAt

\* the racing calls p and q asked for the same address, both got past the
\* email lookup, and both wrote, each its own row, without a store failure
BothWrote(p, q) ==
    /\ p # q
    /\ \A x \in {p, q} : /\ procs[x].pc = "done"
                         /\ procs[x].last = "write"
                         /\ procs[x].storeErr = NoErr
    /\ procs[p].email = procs[q].email
    /\ Deref(procs[p].user).ID # Deref(procs[q].user).ID

\* C13: the service does not serialize calls racing on one email: two
\* calls (Create or UpdateEmail) for the same address that both passed the
\* email lookup both write and both return no error, and two stored users
\* then share the address.
C13_RaceNotSerialized ==
    \A p \in Procs, q \in Procs :
        BothWrote(p, q) =>
            /\ procs[p].err = NoErr
            /\ procs[q].err = NoErr
            /\ \E u \in users, v \in users :
                  /\ u.ID # v.ID
                  /\ u.Email = procs[p].email
                  /\ v.Email = procs[p].email

C13_Witness ==
    /\ BothWrote(1, 2)
    /\ procs[1].op = "Create"
    /\ procs[2].op = "Create"
    /\ procs[1].seen = 0
    /\ procs[2].seen = 0
    /\ procs[1].err = NoErr
    /\ procs[2].err = NoErr
    /\ \E u \in users, v \in users : u.ID # v.ID /\ u.Email = v.Email

====
